---- MODULE Spec2Model ----
(***************************************************************************)
(* minils: a minimal directory lister.  main (src/src/main.rs) builds the  *)
(* default options, parse_arguments (src/src/lib.rs) scans the argument    *)
(* vector left to right, and run filters and prints the directory entries. *)
(*                                                                         *)
(* Text is a sequence of one-character strings, so that starts_with and    *)
(* the option matches are computed on the characters.  The argument vector *)
(* and the directory are read once, in order, so each argument and each    *)
(* entry is drawn from its set when the code reads it; args[1], which main *)
(* may read before the scan does, is drawn at start and kept in `pending`  *)
(* until the scan consumes it.                                             *)
(***************************************************************************)
EXTENDS Integers, Sequences, FiniteSets, TLC

VARIABLES
    pc,                 \* "main", "scan", "run", "loop", "exit" (or "size": the formatter harness)
    argc,               \* args.len(), the program name included
    pending,            \* args[1] while the scan has not consumed it, else NoArg
    i,                  \* the enumerate() index of the scan
    display_options,    \* DisplayOptions {oneline, grid, long, recurse}
    filtering_options,  \* FilteringOptions {all, list_dirs, only_dirs, only_files}
    seen,               \* directory entries the iterator has yielded so far
    entry,              \* the entry of the current loop iteration (or the stat'ed target)
    stdout,             \* what was printed, one record per print unit
    stderr,             \* diagnostics, each a sequence of text parts
    status,             \* <<>> while running, <<code>> once the process has exited
    last_display,       \* history: the last display flag applied ("none" before any)
    last_long_grid,     \* history: the last flag applied among long and grid
    last_filter,        \* history: the last flag applied among all and the only-flags
    invalid_seen,       \* history: an argument scanned so far held an invalid option
    positional          \* history: the argument with no leading dash the scan met

vars == <<pc, argc, pending, i, display_options, filtering_options, seen, entry,
          stdout, stderr, status, last_display, last_long_grid, last_filter,
          invalid_seen, positional>>

history == <<last_display, last_long_grid, last_filter, invalid_seen, positional>>

-----------------------------------------------------------------------------
(* Bounds *)

MaxArgs == 2
MaxCluster == 2
MaxEntries == 3

-----------------------------------------------------------------------------
(* Text *)

StartsWith(s, p) == Len(s) >= Len(p) /\ SubSeq(s, 1, Len(p)) = p

OPT_ONELINE == <<"-", "-", "o", "n", "e", "l", "i", "n", "e">>
OPT_LONG == <<"-", "-", "l", "o", "n", "g">>
OPT_GRID == <<"-", "-", "g", "r", "i", "d">>
OPT_RECURSE == <<"-", "-", "r", "e", "c", "u", "r", "s", "e">>
OPT_ALL == <<"-", "-", "a", "l", "l">>
OPT_LIST_DIRS == <<"-", "-", "l", "i", "s", "t", "-", "d", "i", "r", "s">>
OPT_ONLY_DIRS == <<"-", "-", "o", "n", "l", "y", "-", "d", "i", "r", "s">>
OPT_ONLY_FILES == <<"-", "-", "o", "n", "l", "y", "-", "f", "i", "l", "e", "s">>
OPT_HELP == <<"-", "-", "h", "e", "l", "p">>
OPT_VERSION == <<"-", "-", "v", "e", "r", "s", "i", "o", "n">>
OPT_BOGUS == <<"-", "-", "b", "o", "g", "u", "s">>
SHORT_HELP == <<"-", "?">>
SHORT_VERSION == <<"-", "v">>
PATH_FILE == <<"a", ".", "t", "x", "t">>
PATH_DIR == <<"s", "u", "b">>
PROGRAM == <<"m", "i", "n", "i", "l", "s">>

HelpHint == "For help, try running 'minils --help'"

LongTable == {OPT_ONELINE, OPT_LONG, OPT_GRID, OPT_RECURSE, OPT_ALL, OPT_LIST_DIRS,
              OPT_ONLY_DIRS, OPT_ONLY_FILES}
ShortTable == {"1", "l", "G", "R", "a", "d", "D", "f"}

LongArgs == LongTable \cup {OPT_HELP, OPT_VERSION, OPT_BOGUS}
ShortBytes == ShortTable \cup {"v", "?"}
ShortArgs == {<<"-">> \o s : s \in UNION {[1..n -> ShortBytes] : n \in 0..MaxCluster}}
BareArgs == {PATH_FILE, PATH_DIR}
ArgSet == LongArgs \cup ShortArgs \cup BareArgs
NoArg == <<>>

-----------------------------------------------------------------------------
(* main: the defaults *)

DefaultDisplay == [oneline |-> FALSE, grid |-> TRUE, long |-> FALSE, recurse |-> FALSE]
DefaultFiltering == [all |-> FALSE, list_dirs |-> FALSE, only_dirs |-> FALSE,
                     only_files |-> FALSE]

-----------------------------------------------------------------------------
(* parse_arguments: the arms of the long-option match *)

LongOneline(d) == [d EXCEPT !.oneline = TRUE, !.grid = FALSE]
LongLongKeepsGrid(d) == [d EXCEPT !.long = TRUE, !.oneline = TRUE]
LongLong(d) == [d EXCEPT !.long = TRUE, !.oneline = TRUE, !.grid = FALSE]
LongGrid(d) == [d EXCEPT !.grid = TRUE, !.long = FALSE, !.oneline = FALSE]
LongRecurse(d) == [d EXCEPT !.recurse = TRUE, !.grid = FALSE]
LongAll(f) == [f EXCEPT !.all = TRUE]
LongListDirs(f) == [f EXCEPT !.list_dirs = TRUE]
LongOnlyDirsKeepsAll(f) == [f EXCEPT !.only_dirs = TRUE]
LongOnlyDirs(f) == [f EXCEPT !.only_dirs = TRUE, !.all = FALSE]
LongOnlyFiles(f) == [f EXCEPT !.only_files = TRUE, !.all = FALSE]

(* the match on element.as_str(): the options after it, or invalid *)
LongOption(element, d, f) ==
    CASE element = OPT_ONELINE -> [valid |-> TRUE, d |-> LongOneline(d), f |-> f]
      [] element = OPT_LONG -> [valid |-> TRUE, d |-> LongLong(d), f |-> f]
      [] element = OPT_GRID -> [valid |-> TRUE, d |-> LongGrid(d), f |-> f]
      [] element = OPT_RECURSE -> [valid |-> TRUE, d |-> LongRecurse(d), f |-> f]
      [] element = OPT_ALL -> [valid |-> TRUE, d |-> d, f |-> LongAll(f)]
      [] element = OPT_LIST_DIRS -> [valid |-> TRUE, d |-> d, f |-> LongListDirs(f)]
      [] element = OPT_ONLY_DIRS -> [valid |-> TRUE, d |-> d, f |-> LongOnlyDirs(f)]
      [] element = OPT_ONLY_FILES -> [valid |-> TRUE, d |-> d, f |-> LongOnlyFiles(f)]
      [] OTHER -> [valid |-> FALSE, d |-> d, f |-> f]

(* parse_arguments: the arms of the short-option match *)

ShortOneline(d) == [d EXCEPT !.oneline = TRUE, !.grid = FALSE]
ShortLong(d) == [d EXCEPT !.long = TRUE, !.oneline = TRUE, !.grid = FALSE]
ShortGridKeepsLong(d) == [d EXCEPT !.grid = TRUE, !.oneline = FALSE]
ShortGrid(d) == [d EXCEPT !.grid = TRUE, !.long = FALSE, !.oneline = FALSE]
ShortRecurse(d) == [d EXCEPT !.recurse = TRUE, !.grid = FALSE]
ShortAll(f) == [f EXCEPT !.all = TRUE]
ShortListDirs(f) == [f EXCEPT !.list_dirs = TRUE]
ShortOnlyDirs(f) == [f EXCEPT !.only_dirs = TRUE, !.only_files = FALSE, !.all = FALSE]
ShortOnlyFiles(f) == [f EXCEPT !.only_files = TRUE, !.only_dirs = FALSE, !.all = FALSE]

ShortOptionLenient(option, d, f) ==
    CASE option = "1" -> [valid |-> TRUE, d |-> ShortOneline(d), f |-> f]
      [] option = "l" -> [valid |-> TRUE, d |-> ShortLong(d), f |-> f]
      [] option = "G" -> [valid |-> TRUE, d |-> ShortGrid(d), f |-> f]
      [] option = "R" -> [valid |-> TRUE, d |-> ShortRecurse(d), f |-> f]
      [] option = "a" -> [valid |-> TRUE, d |-> d, f |-> ShortAll(f)]
      [] option = "d" -> [valid |-> TRUE, d |-> d, f |-> ShortListDirs(f)]
      [] option = "D" -> [valid |-> TRUE, d |-> d, f |-> ShortOnlyDirs(f)]
      [] option = "f" -> [valid |-> TRUE, d |-> d, f |-> ShortOnlyFiles(f)]
      [] OTHER -> [valid |-> TRUE, d |-> d, f |-> f]

ShortOption(option, d, f) ==
    CASE option = "1" -> [valid |-> TRUE, d |-> ShortOneline(d), f |-> f]
      [] option = "l" -> [valid |-> TRUE, d |-> ShortLong(d), f |-> f]
      [] option = "G" -> [valid |-> TRUE, d |-> ShortGrid(d), f |-> f]
      [] option = "R" -> [valid |-> TRUE, d |-> ShortRecurse(d), f |-> f]
      [] option = "a" -> [valid |-> TRUE, d |-> d, f |-> ShortAll(f)]
      [] option = "d" -> [valid |-> TRUE, d |-> d, f |-> ShortListDirs(f)]
      [] option = "D" -> [valid |-> TRUE, d |-> d, f |-> ShortOnlyDirs(f)]
      [] option = "f" -> [valid |-> TRUE, d |-> d, f |-> ShortOnlyFiles(f)]
      [] OTHER -> [valid |-> FALSE, d |-> d, f |-> f]

(* for &option in options_iter: the characters from position k on, applied in
   order until the first invalid one; `invalid` is that character, or "" *)
RECURSIVE ShortCluster(_, _, _, _)
ShortCluster(options, k, d, f) ==
    IF k > Len(options)
    THEN [invalid |-> "", applied |-> k - 2, d |-> d, f |-> f]
    ELSE LET r == ShortOption(options[k], d, f)
         IN  IF r.valid
             THEN ShortCluster(options, k + 1, r.d, r.f)
             ELSE [invalid |-> options[k], applied |-> k - 2, d |-> d, f |-> f]

-----------------------------------------------------------------------------
(* History of the flags applied, kept beside the program's state *)

LongFlag(element) ==
    CASE element = OPT_ONELINE -> "oneline"
      [] element = OPT_LONG -> "long"
      [] element = OPT_GRID -> "grid"
      [] element = OPT_ALL -> "all"
      [] element = OPT_ONLY_DIRS -> "long_only_dirs"
      [] element = OPT_ONLY_FILES -> "long_only_files"
      [] OTHER -> "none"

ShortFlag(option) ==
    CASE option = "1" -> "oneline"
      [] option = "l" -> "long"
      [] option = "G" -> "grid"
      [] option = "a" -> "all"
      [] option = "D" -> "short_only_dirs"
      [] option = "f" -> "short_only_files"
      [] OTHER -> "none"

(* the last flag of `which` among the first n characters after the dash *)
RECURSIVE LastShortFlag(_, _, _, _)
LastShortFlag(which, options, n, last) ==
    IF n = 0 THEN last
    ELSE IF ShortFlag(options[n + 1]) \in which THEN ShortFlag(options[n + 1])
    ELSE LastShortFlag(which, options, n - 1, last)

AllDisplay == {"oneline", "long", "grid"}
LongGridOnly == {"long", "grid"}
LongOnly == {"long_only_dirs", "long_only_files"}
ShortOnly == {"short_only_dirs", "short_only_files"}
FilterFlags == {"all"} \cup LongOnly \cup ShortOnly

(* an option outside the tables: a long option, or a character of a cluster *)
InvalidLong(element) == StartsWith(element, <<"-", "-">>) /\ element \notin LongTable
InvalidCluster(element) ==
    /\ StartsWith(element, <<"-">>)
    /\ ~StartsWith(element, <<"-", "-">>)
    /\ \E k \in 2..Len(element) : element[k] \notin ShortTable

-----------------------------------------------------------------------------
(* u64 sizes.  A size is three limbs in base 10^6, hi * 10^12 + mid * 10^6 + lo,
   so that the whole u64 range is computed without overflow. *)

Limb == 10^6
U64(hi, mid, lo) == [hi |-> hi, mid |-> mid, lo |-> lo]
U64Of(n) == U64(0, n \div Limb, n % Limb)
U64Lt(a, b) ==
    \/ a.hi < b.hi
    \/ a.hi = b.hi /\ a.mid < b.mid
    \/ a.hi = b.hi /\ a.mid = b.mid /\ a.lo < b.lo
U64Max == U64(18446744, 73709, 551615)

(* 10u64.pow(k) for the exponents the code uses *)
Pow10(k) ==
    CASE k = 3 -> U64(0, 0, 1000)
      [] k = 6 -> U64(0, 1, 0)
      [] k = 9 -> U64(0, 1000, 0)
      [] k = 12 -> U64(1, 0, 0)
      [] k = 15 -> U64(1000, 0, 0)

(* truncating division by 1000, limb by limb *)
Div1000(s) ==
    LET t1 == (s.hi % 1000) * Limb + s.mid
        t2 == (t1 % 1000) * Limb + s.lo
    IN  U64(s.hi \div 1000, t1 \div 1000, t2 \div 1000)

(* size / 10u64.pow(k), k a multiple of 3: u64 division truncates *)
RECURSIVE DivPow10(_, _)
DivPow10(s, k) == IF k = 0 THEN s ELSE DivPow10(Div1000(s), k - 3)

-----------------------------------------------------------------------------
(* Directory entries and metadata *)

InvalidByte == "\\xFF"

NAME_HIDDEN == <<".", "h", "i", "d", "d", "e", "n">>
NAME_VISIBLE == <<"v", "i", "s", "i", "b", "l", "e", ".", "t", "x", "t">>
NAME_SUB == <<"s", "u", "b">>
NAME_GIT == <<".", "g", "i", "t">>
NAME_LINK == <<"l", "i", "n", "k">>
NAME_BAD == <<".", "b", InvalidByte>>

DirEntry(name, kind, mode, size) ==
    [name |-> name, kind |-> kind, mode |-> mode, size |-> size]

(* the directory a run may list: any MaxEntries of these, in any order *)
Universe ==
    { DirEntry(NAME_HIDDEN, "file", 420, U64Of(500)),
      DirEntry(NAME_VISIBLE, "file", 420, U64Of(999999)),
      DirEntry(NAME_SUB, "dir", 493, U64Of(4096)),
      DirEntry(NAME_GIT, "dir", 448, U64Of(4096)),
      DirEntry(NAME_LINK, "symlink", 511, U64Of(3)),
      DirEntry(NAME_BAD, "file", 384, U64Of(0)) }
NoEntry == DirEntry(<<>>, "none", 0, U64Of(0))

IntoStringLossy(os_name) == [ok |-> TRUE, name |-> os_name]

(* entry.file_name().into_string(): Err when the name is not valid Unicode *)
IntoString(os_name) ==
    IF \E k \in 1..Len(os_name) : os_name[k] = InvalidByte
    THEN [ok |-> FALSE, name |-> os_name]
    ELSE [ok |-> TRUE, name |-> os_name]

(* what fs::metadata (which follows symbolic links) can return for a path *)
Metadata(kind, mode, size) == [kind |-> kind, mode |-> mode, size |-> size]
StatResults ==
    { Metadata("file", 420, U64Of(500)), Metadata("file", 420, U64Of(999999)),
      Metadata("dir", 493, U64Of(4096)) }

(* failures the filesystem may report to one loop iteration or one render *)
IoOutcomes == {"ok", "entry", "file_type", "metadata", "read_link"}

-----------------------------------------------------------------------------
(* Rendering *)

Bit(mode, k) == (mode \div 2^k) % 2 = 1
Permissions(mode) ==
    [k \in 1..9 |-> IF Bit(mode, 9 - k) THEN <<"r", "w", "x">>[((k - 1) % 3) + 1] ELSE "-"]

TypeGlyph(kind) == IF kind = "dir" THEN "d" ELSE IF kind = "file" THEN "-" ELSE "l"

(* print_entry: directory blue, symlink cyan, else bold *)
EntryColor(kind) ==
    IF kind = "dir" THEN "bold blue" ELSE IF kind = "symlink" THEN "bold cyan" ELSE "bold"

(* parse_arguments: a directory is rendered only under list_dirs *)
TargetColor(kind) ==
    IF kind = "dir" THEN "bold blue" ELSE IF kind = "symlink" THEN "bold cyan" ELSE "bold"

SizeText(lead, width, num, unit) ==
    [lead |-> lead, width |-> width, num |-> num, unit |-> unit]
NoSize == SizeText("", 0, <<>>, "")

SizeFieldKilo(kind, size) ==
    IF kind # "dir"
    THEN IF U64Lt(size, Pow10(3)) THEN SizeText("", 4, <<size>>, "B")
         ELSE IF U64Lt(size, Pow10(6)) THEN SizeText("", 3, <<DivPow10(size, 3)>>, "KB")
         ELSE IF U64Lt(size, Pow10(9)) THEN SizeText("", 3, <<DivPow10(size, 6)>>, "MB")
         ELSE IF U64Lt(size, Pow10(12)) THEN SizeText("", 3, <<DivPow10(size, 9)>>, "GB")
         ELSE SizeText("", 3, <<DivPow10(size, 12)>>, "TB")
    ELSE SizeText("", 5, <<>>, "-")

(* print_entry: the size column *)
SizeField(kind, size) ==
    IF kind # "dir"
    THEN IF U64Lt(size, Pow10(3)) THEN SizeText("", 4, <<size>>, "B")
         ELSE IF U64Lt(size, Pow10(6)) THEN SizeText("", 3, <<DivPow10(size, 6)>>, "KB")
         ELSE IF U64Lt(size, Pow10(9)) THEN SizeText("", 3, <<DivPow10(size, 9)>>, "MB")
         ELSE IF U64Lt(size, Pow10(12)) THEN SizeText("", 3, <<DivPow10(size, 12)>>, "GB")
         ELSE SizeText("", 3, <<DivPow10(size, 15)>>, "TB")
    ELSE SizeText("", 5, <<>>, "-")

(* parse_arguments: the size column of the single-entry render *)
TargetSizeField(kind, size) ==
    IF kind # "dir"
    THEN IF U64Lt(size, Pow10(3)) THEN SizeText(" ", 3, <<size>>, "B")
         ELSE IF U64Lt(size, Pow10(6)) THEN SizeText("", 3, <<DivPow10(size, 6)>>, "KB")
         ELSE IF U64Lt(size, Pow10(9)) THEN SizeText("", 3, <<DivPow10(size, 9)>>, "MB")
         ELSE IF U64Lt(size, Pow10(12)) THEN SizeText("", 3, <<DivPow10(size, 12)>>, "GB")
         ELSE SizeText("", 3, <<DivPow10(size, 15)>>, "TB")
    ELSE SizeText("", 5, <<>>, "-")

Header == [unit |-> "header"]
Newline == [unit |-> "newline"]
HelpText == [unit |-> "help"]
VersionText == [unit |-> "version"]
Line(color, glyph, perms, size, name, target, newline) ==
    [unit |-> "entry", color |-> color, glyph |-> glyph, perms |-> perms, size |-> size,
     name |-> name, target |-> target, newline |-> newline]
(* the metadata columns alone, when read_link fails after they were printed *)
Columns(color, glyph, perms, size) ==
    [unit |-> "columns", color |-> color, glyph |-> glyph, perms |-> perms, size |-> size]

(* a line on the error stream: "{subject}: {text} {tail}" *)
Diagnostic(subject, text, tail) == [subject |-> subject, text |-> text, tail |-> tail]
(* err_handling: the error's own message, no hint *)
IoError(op) == Diagnostic(<<>>, op, "")

(* print_entry: what it prints, and the error that ended the process, if any *)
PrintEntry(e, entry_type, entry_name, d, io) ==
    LET color == EntryColor(entry_type)
        glyph == IF d.long THEN TypeGlyph(entry_type) ELSE ""
        perms == IF d.long THEN Permissions(e.mode) ELSE <<>>
        size == IF d.long THEN SizeField(e.kind, e.size) ELSE NoSize
    IN  IF d.long /\ io = "metadata"
        THEN [out |-> <<>>, err |-> <<IoError("metadata")>>]
        ELSE IF d.long /\ entry_type = "symlink"
        THEN IF io = "read_link"
             THEN [out |-> <<Columns(color, glyph, perms, size)>>,
                   err |-> <<IoError("read_link")>>]
             ELSE [out |-> <<Line(color, glyph, perms, size, entry_name, PATH_DIR, TRUE)>>,
                   err |-> <<>>]
        ELSE [out |-> <<Line(color, glyph, perms, size, entry_name, <<>>,
                             d.long \/ d.oneline)>>,
              err |-> <<>>]

(* run: whether the filter chain calls print_entry for the entry *)
Printed(f, entry_type, entry_name) ==
    IF f.only_dirs /\ entry_type = "dir"
    THEN IF f.all THEN TRUE ELSE ~StartsWith(entry_name, <<".">>)
    ELSE IF f.only_files /\ entry_type = "file"
    THEN IF f.all THEN TRUE ELSE ~StartsWith(entry_name, <<".">>)
    ELSE IF ~f.all /\ ~StartsWith(entry_name, <<".">>)
    THEN TRUE
    ELSE TRUE

(* parse_arguments: the render of a target that is not a directory to list;
   it prints the header and one line and exits 0 *)
TargetRender(metadata, entry_name, d, io) ==
    LET color == TargetColor(metadata.kind)
        glyph == IF d.long THEN TypeGlyph(metadata.kind) ELSE ""
        perms == IF d.long THEN Permissions(metadata.mode) ELSE <<>>
        size == IF d.long THEN TargetSizeField(metadata.kind, metadata.size) ELSE NoSize
        head == IF d.long THEN <<Header>> ELSE <<>>
    IN  IF d.long /\ metadata.kind = "symlink"
        THEN IF io = "read_link"
             THEN [out |-> head \o <<Columns(color, glyph, perms, size)>>,
                   err |-> <<IoError("read_link")>>]
             ELSE [out |-> head \o <<Line(color, glyph, perms, size, entry_name,
                                          PATH_DIR, TRUE)>>,
                   err |-> <<>>]
        ELSE [out |-> head \o <<Line(color, glyph, perms, size, entry_name, <<>>, TRUE)>>,
              err |-> <<>>]

-----------------------------------------------------------------------------
(* The process *)

Init ==
    /\ pc = "main"
    /\ argc \in 1..(MaxArgs + 1)
    /\ pending \in (IF argc >= 2 THEN ArgSet ELSE {NoArg})
    /\ i = 0
    /\ display_options = DefaultDisplay
    /\ filtering_options = DefaultFiltering
    /\ seen = {}
    /\ entry = NoEntry
    /\ stdout = <<>>
    /\ stderr = <<>>
    /\ status = <<>>
    /\ last_display = "none"
    /\ last_long_grid = "none"
    /\ last_filter = "none"
    /\ invalid_seen = FALSE
    /\ positional = NoArg

(* process::exit(code), after the diagnostic (if any) was written *)
Exit(code, diagnostic) ==
    /\ pc' = "exit"
    /\ status' = <<code>>
    /\ stderr' = stderr \o diagnostic

(* main: --help or -? as the sole argument *)
MainHelp ==
    /\ pc = "main"
    /\ argc = 2
    /\ pending \in {OPT_HELP, SHORT_HELP}
    /\ stdout' = Append(stdout, HelpText)
    /\ Exit(0, <<>>)
    /\ UNCHANGED <<argc, pending, i, display_options, filtering_options, seen, entry,
                   history>>

(* main: --version or -v as the sole argument *)
MainVersion ==
    /\ pc = "main"
    /\ argc = 2
    /\ pending \in {OPT_VERSION, SHORT_VERSION}
    /\ stdout' = Append(stdout, VersionText)
    /\ Exit(0, <<>>)
    /\ UNCHANGED <<argc, pending, i, display_options, filtering_options, seen, entry,
                   history>>

(* main: anything else goes to parse_arguments *)
MainParse ==
    /\ pc = "main"
    /\ ~(argc = 2 /\ pending \in {OPT_HELP, SHORT_HELP, OPT_VERSION, SHORT_VERSION})
    /\ pc' = "scan"
    /\ UNCHANGED <<argc, pending, i, display_options, filtering_options, seen, entry,
                   stdout, stderr, status, history>>

(* the argument the iterator yields next *)
Elements == IF pending # NoArg THEN {pending} ELSE ArgSet

(* parse_arguments: an element that starts with "--" *)
ScanLong ==
    /\ pc = "scan"
    /\ i < argc - 1
    /\ \E element \in Elements :
        /\ StartsWith(element, <<"-", "-">>)
        /\ LET r == LongOption(element, display_options, filtering_options)
           IN  IF r.valid
               THEN /\ display_options' = r.d
                    /\ filtering_options' = r.f
                    /\ i' = i + 1
                    /\ last_display' = IF LongFlag(element) \in AllDisplay
                                       THEN LongFlag(element) ELSE last_display
                    /\ last_long_grid' = IF LongFlag(element) \in LongGridOnly
                                         THEN LongFlag(element) ELSE last_long_grid
                    /\ last_filter' = IF LongFlag(element) \in FilterFlags
                                      THEN LongFlag(element) ELSE last_filter
                    /\ UNCHANGED <<pc, stderr, status>>
               ELSE /\ Exit(1, <<Diagnostic(element, "Invalid option.", HelpHint)>>)
                    /\ UNCHANGED <<i, display_options, filtering_options,
                                   last_display, last_long_grid, last_filter>>
        /\ invalid_seen' = (invalid_seen \/ InvalidLong(element))
    /\ pending' = NoArg
    /\ UNCHANGED <<argc, seen, entry, stdout, positional>>

(* parse_arguments: an element that starts with "-": a cluster of short options *)
ScanShort ==
    /\ pc = "scan"
    /\ i < argc - 1
    /\ \E element \in Elements :
        /\ ~StartsWith(element, <<"-", "-">>)
        /\ StartsWith(element, <<"-">>)
        /\ IF Len(element) < 2
           THEN /\ Exit(1, <<Diagnostic(<<>>, "Option not specified.", HelpHint)>>)
                /\ UNCHANGED <<i, display_options, filtering_options,
                               last_display, last_long_grid, last_filter>>
           ELSE LET r == ShortCluster(element, 2, display_options, filtering_options)
                IN  /\ display_options' = r.d
                    /\ filtering_options' = r.f
                    /\ last_display' = LastShortFlag(AllDisplay, element, r.applied,
                                                     last_display)
                    /\ last_long_grid' = LastShortFlag(LongGridOnly, element, r.applied,
                                                       last_long_grid)
                    /\ last_filter' = LastShortFlag(FilterFlags, element, r.applied,
                                                    last_filter)
                    /\ IF r.invalid = ""
                       THEN i' = i + 1 /\ UNCHANGED <<pc, stderr, status>>
                       ELSE /\ Exit(1, <<Diagnostic(<<r.invalid>>, "Invalid option.", HelpHint)>>)
                            /\ UNCHANGED i
        /\ invalid_seen' = (invalid_seen \/ InvalidCluster(element))
    /\ pending' = NoArg
    /\ UNCHANGED <<argc, seen, entry, stdout, positional>>

(* args[i] as the positional branch reads it: i counts from the element after the
   program name, so args[i] is the program name or an argument scanned before *)
ArgsAt(k) == IF k = 0 THEN {PROGRAM} ELSE ArgSet

(* parse_arguments: an element with no leading dash *)
ScanPositional ==
    /\ pc = "scan"
    /\ i < argc - 1
    /\ \E element \in Elements :
        /\ ~StartsWith(element, <<"-">>)
        /\ positional' = element
        /\ IF i = argc - 1
           THEN \E path \in ArgsAt(i), found \in BOOLEAN, metadata \in StatResults,
                   io \in IoOutcomes :
                  IF ~found
                  THEN /\ Exit(1, <<IoError("metadata")>>)
                       /\ UNCHANGED <<entry, stdout>>
                  ELSE IF metadata.kind = "dir" /\ ~filtering_options.list_dirs
                  THEN /\ entry' = DirEntry(path, metadata.kind, metadata.mode,
                                            metadata.size)
                       /\ IF io = "entry"
                          THEN Exit(1, <<IoError("read_dir")>>)
                          ELSE pc' = "run" /\ UNCHANGED <<stderr, status>>
                       /\ UNCHANGED stdout
                  ELSE LET r == TargetRender(metadata, path, display_options, io)
                       IN  /\ entry' = DirEntry(path, metadata.kind, metadata.mode,
                                                metadata.size)
                           /\ stdout' = stdout \o r.out
                           /\ Exit(IF r.err = <<>> THEN 0 ELSE 1, r.err)
           ELSE /\ Exit(1, <<Diagnostic(<<>>, "Error parsing option.", HelpHint)>>)
                /\ UNCHANGED <<entry, stdout>>
    /\ pending' = NoArg
    /\ UNCHANGED <<argc, i, display_options, filtering_options, seen,
                   last_display, last_long_grid, last_filter, invalid_seen>>

(* parse_arguments: the iterator is exhausted: fs::read_dir(".") *)
ScanDone ==
    /\ pc = "scan"
    /\ i >= argc - 1
    /\ \E ok \in BOOLEAN :
        IF ok
        THEN pc' = "run" /\ UNCHANGED <<stderr, status>>
        ELSE Exit(1, <<IoError("read_dir")>>)
    /\ UNCHANGED <<argc, pending, i, display_options, filtering_options, seen, entry,
                   stdout, history>>

(* run: the header of the long table *)
RunStart ==
    /\ pc = "run"
    /\ stdout' = IF display_options.long THEN Append(stdout, Header) ELSE stdout
    /\ pc' = "loop"
    /\ UNCHANGED <<argc, pending, i, display_options, filtering_options, seen, entry,
                   stderr, status, history>>

(* run: one iteration of `for entry in entries` *)
RunEntry ==
    /\ pc = "loop"
    /\ Cardinality(seen) < MaxEntries
    /\ \E e \in Universe \ seen, io \in IoOutcomes :
        /\ seen' = seen \cup {e}
        /\ entry' = e
        /\ IF io = "entry"
           THEN Exit(1, <<IoError("read_dir")>>) /\ UNCHANGED stdout
           ELSE IF io = "file_type"
           THEN Exit(1, <<IoError("file_type")>>) /\ UNCHANGED stdout
           ELSE LET entry_name == IntoString(e.name)
                IN  IF ~entry_name.ok
                    THEN /\ Exit(1, <<Diagnostic(entry_name.name, "Invalid Unicode in name", "")>>)
                         /\ UNCHANGED stdout
                    ELSE IF Printed(filtering_options, e.kind, entry_name.name)
                    THEN LET r == PrintEntry(e, e.kind, entry_name.name,
                                             display_options, io)
                         IN  /\ stdout' = stdout \o r.out
                             /\ IF r.err = <<>>
                                THEN UNCHANGED <<pc, stderr, status>>
                                ELSE Exit(1, r.err)
                    ELSE UNCHANGED <<pc, stdout, stderr, status>>
    /\ UNCHANGED <<argc, pending, i, display_options, filtering_options,
                   history>>

(* run: the directory is exhausted; main returns *)
RunEnd ==
    /\ pc = "loop"
    /\ stdout' = IF display_options.grid THEN Append(stdout, Newline) ELSE stdout
    /\ Exit(0, <<>>)
    /\ UNCHANGED <<argc, pending, i, display_options, filtering_options, seen, entry,
                   history>>

Next ==
    \/ MainHelp
    \/ MainVersion
    \/ MainParse
    \/ ScanLong
    \/ ScanShort
    \/ ScanPositional
    \/ ScanDone
    \/ RunStart
    \/ RunEntry
    \/ RunEnd

Spec == Init /\ [][Next]_vars

-----------------------------------------------------------------------------
(* The size column on its own: both renders applied to one file of each size *)

SizeSet ==
    { s \in { U64(h, m, l) : h \in {0, 1, 999, 1000, 1001, 18446, 18446744},
                              m \in {0, 1, 999, 1000, 73709, 999999},
                              l \in {0, 1, 500, 999, 1000, 551615, 999999} } :
        ~U64Lt(U64Max, s) }

SizeInit ==
    /\ pc = "size"
    /\ argc = 1
    /\ pending = NoArg
    /\ i = 0
    /\ display_options = LongLong(DefaultDisplay)
    /\ filtering_options = DefaultFiltering
    /\ seen = {}
    /\ entry \in {DirEntry(NAME_VISIBLE, "file", 420, s) : s \in SizeSet}
    /\ stdout = <<>>
    /\ stderr = <<>>
    /\ status = <<>>
    /\ last_display = "long"
    /\ last_long_grid = "long"
    /\ last_filter = "none"
    /\ invalid_seen = FALSE
    /\ positional = NoArg

(* the line print_entry prints for the file *)
SizeListing ==
    /\ pc = "size"
    /\ stdout' = stdout \o PrintEntry(entry, entry.kind, entry.name, display_options,
                                      "ok").out
    /\ pc' = "size_target"
    /\ UNCHANGED <<argc, pending, i, display_options, filtering_options, seen, entry,
                   stderr, status, history>>

(* the header and line parse_arguments prints for the same file as a target *)
SizeTarget ==
    /\ pc = "size_target"
    /\ stdout' = stdout \o TargetRender(Metadata(entry.kind, entry.mode, entry.size),
                                        entry.name, display_options, "ok").out
    /\ pc' = "size_done"
    /\ UNCHANGED <<argc, pending, i, display_options, filtering_options, seen, entry,
                   stderr, status, history>>

SizeNext ==
    \/ SizeListing
    \/ SizeTarget

SizeSpec == SizeInit /\ [][SizeNext]_vars

-----------------------------------------------------------------------------
(* Properties *)

EntryLines == {k \in DOMAIN stdout : stdout[k].unit = "entry"}
PrintedNames == {stdout[k].name : k \in EntryLines}
KindOf(name) == (CHOOSE e \in Universe : e.name = name).kind
Visible(e) == filtering_options.all \/ ~StartsWith(e.name, <<".">>)
IsPrefix(s, t) == Len(s) <= Len(t) /\ SubSeq(t, 1, Len(s)) = s

(* the mode the renders use: the table if long, else one per line if oneline *)
Mode ==
    IF display_options.long THEN "long"
    ELSE IF display_options.oneline THEN "oneline"
    ELSE "grid"

(* C1: with neither only-flag set, the entries printed are exactly those that
   are visible: `all` is set or the name does not start with '.' *)
C1_DotfileFilter ==
    (/\ pc \in {"loop", "exit"}
     /\ seen # {}
     /\ stderr = <<>>
     /\ ~filtering_options.only_dirs
     /\ ~filtering_options.only_files)
    => PrintedNames = {e.name : e \in {x \in seen : Visible(x)}}

(* C2: under only_dirs every printed entry is a directory; under only_files
   (without only_dirs) every printed entry is a regular file *)
C2_TypeFilter ==
    seen # {} =>
        /\ filtering_options.only_dirs =>
               \A n \in PrintedNames : KindOf(n) = "dir"
        /\ (filtering_options.only_files /\ ~filtering_options.only_dirs) =>
               \A n \in PrintedNames : KindOf(n) = "file"

(* C3: a bare path as the last argument is resolved as the target: the process
   prints one entry line and exits 0, and does not reject it as a parse error *)
C3_TargetResolved ==
    (positional = PATH_FILE /\ i = argc - 2) =>
        /\ pc = "exit"
        /\ status = <<0>>
        /\ stderr = <<>>
        /\ Cardinality(EntryLines) = 1
        /\ seen = {}

(* C4, as claimed: the mode is the one named by the last display flag *)
C4_LastFlagWins ==
    last_display # "none" => Mode = last_display

(* C4: the mode is the one named by the last display flag, except that oneline
   applied while long is set (a long flag before it, no grid flag between)
   leaves the mode Long *)
C4_LastFlagWinsUnlessLong ==
    Mode = IF last_display = "oneline" /\ last_long_grid = "long" THEN "long"
           ELSE IF last_display = "none" THEN "grid"
           ELSE last_display
C4_Witness ==
    /\ pc = "loop"
    /\ last_display = "oneline"
    /\ last_long_grid = "long"
    /\ Header \in {stdout[k] : k \in DOMAIN stdout}

HelpOrVersion == stdout \in {<<HelpText>>, <<VersionText>>}
ExitedWithHint ==
    /\ pc = "exit"
    /\ status = <<1>>
    /\ Len(stderr) = 1
    /\ stderr[1].tail = HelpHint
    /\ stdout = <<>>
(* C5: an argument vector holding an invalid long option or an invalid
   character in a cluster ends in exit status 1 with a diagnostic that ends in
   the help hint and no entry printed; so does every other way the scan stops
   before the last argument, the arguments after it being unread *)
C5_InvalidOptionsFatal ==
    /\ invalid_seen => ExitedWithHint /\ stderr[1].text = "Invalid option."
    /\ (pc = "exit" /\ i < argc - 1 /\ ~HelpOrVersion) => ExitedWithHint
C5_Witness ==
    /\ invalid_seen
    /\ i = 1
    /\ stderr = <<Diagnostic(<<"?">>, "Invalid option.", HelpHint)>>
    /\ display_options.long
    /\ status = <<1>>

Times1000(x) ==
    LET l == x.lo * 1000
        m == x.mid * 1000 + l \div Limb
    IN  U64(x.hi * 1000 + m \div Limb, m % Limb, l % Limb)
RECURSIVE TimesPow10(_, _)
TimesPow10(x, k) == IF k = 0 THEN x ELSE TimesPow10(Times1000(x), k - 3)
Succ(x) ==
    IF x.lo + 1 < Limb THEN U64(x.hi, x.mid, x.lo + 1)
    ELSE IF x.mid + 1 < Limb THEN U64(x.hi, x.mid + 1, 0)
    ELSE U64(x.hi + 1, 0, 0)
(* n = floor(s / 10^k) *)
IsQuotient(n, s, k) ==
    /\ ~U64Lt(s, TimesPow10(n, k))
    /\ U64Lt(s, TimesPow10(Succ(n), k))
SizeAsClaimed(s, field) ==
    IF U64Lt(s, Pow10(3)) THEN field.unit = "B" /\ field.num = <<s>>
    ELSE IF U64Lt(s, Pow10(6)) THEN field.unit = "KB" /\ IsQuotient(field.num[1], s, 6)
    ELSE IF U64Lt(s, Pow10(9)) THEN field.unit = "MB" /\ IsQuotient(field.num[1], s, 9)
    ELSE IF U64Lt(s, Pow10(12)) THEN field.unit = "GB" /\ IsQuotient(field.num[1], s, 12)
    ELSE field.unit = "TB" /\ IsQuotient(field.num[1], s, 15)
(* C6: the size of a non-directory is shown in bytes below 1000, else divided
   (truncating) by 10^6, 10^9, 10^12 or 10^15 with unit KB, MB, GB or TB chosen
   by the thresholds 10^6, 10^9, 10^12; both renders agree on number and unit *)
C6_SizeField ==
    pc = "size_done" =>
        LET listed == stdout[1].size
            target == stdout[3].size
        IN  /\ SizeAsClaimed(entry.size, listed)
            /\ target.num = listed.num
            /\ target.unit = listed.unit
            /\ entry.size = U64Of(500) => listed.num = <<U64Of(500)>> /\ listed.unit = "B"
            /\ entry.size = U64Of(999999) => listed.num = <<U64Of(0)>> /\ listed.unit = "KB"
C6_Witness ==
    /\ pc = "size_done"
    /\ entry.size = U64Of(999999)
    /\ stdout[1].size.unit = "KB"
    /\ stdout[3].size.unit = "KB"

(* C7, as claimed: exactly one of oneline, grid, long is set at every step *)
C7_ExactlyOneFlag ==
    Cardinality({x \in {"oneline", "grid", "long"} : display_options[x]}) = 1

(* C7: grid is never set together with oneline or long, and long is never set
   without oneline; the last display flag applied has cleared the flags of the
   other group: grid clears oneline and long, oneline and long clear grid *)
C7_GridExclusive ==
    /\ ~(display_options.grid /\ (display_options.oneline \/ display_options.long))
    /\ display_options.long => display_options.oneline
    /\ last_display = "grid" => ~display_options.oneline /\ ~display_options.long
    /\ last_display = "long" =>
           display_options.long /\ display_options.oneline /\ ~display_options.grid
    /\ last_display = "oneline" => display_options.oneline /\ ~display_options.grid
    /\ last_display \in {"grid", "none"} =>
           display_options.grid \/ display_options.recurse
C7_Witness ==
    /\ pc = "scan"
    /\ last_display = "long"
    /\ display_options.long
    /\ display_options.oneline
    /\ ~display_options.grid

(* C8: only_dirs and only_files are never both set *)
C8_OnlyFlagsExclusive ==
    ~(filtering_options.only_dirs /\ filtering_options.only_files)

(* C9, as claimed: applying the long form of an only-flag leaves `all` as it
   was; applying the short form clears `all` and the opposing only-flag *)
C9_LongFormKeepsAll ==
    [][/\ (last_filter' \in LongOnly /\ last_filter' # last_filter) =>
              filtering_options'.all = filtering_options.all
       /\ (last_filter' \in ShortOnly /\ last_filter' # last_filter) =>
              ~filtering_options'.all]_vars

(* C9: an only-flag clears `all` in the long form as in the short form, so
   `all` is set exactly when the last flag among all and the only-flags is all;
   the short form also clears the opposing only-flag *)
C9_OnlyFlagsClearAll ==
    /\ filtering_options.all <=> last_filter = "all"
    /\ last_filter = "long_only_dirs" => filtering_options.only_dirs
    /\ last_filter = "long_only_files" => filtering_options.only_files
    /\ last_filter = "short_only_dirs" =>
           filtering_options.only_dirs /\ ~filtering_options.only_files
    /\ last_filter = "short_only_files" =>
           filtering_options.only_files /\ ~filtering_options.only_dirs
C9_Witness ==
    /\ pc = "scan"
    /\ i = 2
    /\ last_filter = "long_only_dirs"
    /\ filtering_options.only_dirs
    /\ ~filtering_options.all

EntryFailed ==
    /\ stderr # <<>>
    /\ stderr[1].text \in {"Invalid Unicode in name", "file_type"}
(* C10: an entry whose name does not decode or whose type lookup fails ends
   the process with status 1 at that entry, whatever the filter would have done
   with it: nothing is printed for it or after it, and what was printed before
   stays *)
C10_FatalOnFirstBadEntry ==
    /\ [](EntryFailed =>
            /\ pc = "exit"
            /\ status = <<1>>
            /\ PrintedNames \subseteq {e.name : e \in seen \ {entry}})
    /\ []((entry \in Universe /\ InvalidByte \in {entry.name[k] : k \in DOMAIN entry.name}) =>
            pc = "exit" /\ status = <<1>>)
    /\ [][/\ pc # "exit"
          /\ IsPrefix(stdout, stdout')
          /\ EntryFailed' => stdout' = stdout]_vars
C10_Witness ==
    /\ pc = "exit"
    /\ stderr = <<Diagnostic(NAME_BAD, "Invalid Unicode in name", "")>>
    /\ filtering_options.only_files
    /\ ~filtering_options.all
    /\ display_options.long
    /\ Cardinality(EntryLines) = 2

====
